---- MODULE Spec2Model ----
(***************************************************************************)
(* SafeAudioPlayer (src/src/components/common/SafeAudioPlayer.tsx): the    *)
(* React component that plays a recorded asset through an HTMLAudioElement *)
(* and falls back to the text-to-speech player when the asset is missing   *)
(* or fails.                                                               *)
(*                                                                         *)
(* One action is one JavaScript task run to completion: a DOM event        *)
(* handler, a promise callback, a timer callback or a React commit,        *)
(* together with the re-render and the effects its setState calls cause.   *)
(* The media element is modelled by what the HTML standard's media element *)
(* algorithms do to the fields the component reads: assigning src runs the *)
(* load algorithm (pending event tasks of the element are removed, the     *)
(* element is paused without a pause event, and an empty src ends in the   *)
(* dedicated media source failure steps, which queue an error event).      *)
(***************************************************************************)
EXTENDS Integers, Sequences, FiniteSets, TLC

\* Bounds of the model.
MaxSessions == 2      \* runs of the load effect in one mount
MaxTasks == 2         \* event tasks queued on one media element
MaxDur == 1           \* media durations are 2, 4, .., 2 * MaxDur seconds
MaxCalls == 2         \* callback invocations are counted up to MaxCalls

NoUrl == ""
Urls == {"a", "b"}
Sessions == 1..MaxSessions
Durations == {2 * k : k \in 1..MaxDur}
SeekValues == {0, 50, 100}

VARIABLES
  life,                 \* "new" | "mounted" | "unmounted"
  audioUrl, autoPlay,   \* props
  loadError, isLoading, isPlaying, progress, duration, isMuted,   \* useState
  audioRef,             \* audioRef.current: a handle id, 0 for null
  volume,               \* audioRef.current.volume (the only volume the code
                        \* reads or writes); 1, the default, while null
  progressIntervalRef,  \* progressIntervalRef.current: a timer id, 0 for null
  timers,               \* the interval timers that are scheduled
  session,              \* number of runs of the load effect so far
  audio,                \* handle id -> the HTMLAudioElement created by run id
  probe,                \* run id -> state of its HEAD request
  onErrorCalls,         \* run id -> calls of onError by that run's handlers
  endsUnreported,       \* natural ends of the current element's playback
                        \* minus the calls of onEnded
  playRejected          \* a play() promise was rejected; its .catch is due

vars == <<life, audioUrl, autoPlay, loadError, isLoading,
          isPlaying, progress, duration, isMuted, audioRef, volume,
          progressIntervalRef, timers, session, audio, probe, onErrorCalls,
          endsUnreported, playRejected>>

props == <<audioUrl, autoPlay>>
callbacks == <<onErrorCalls, endsUnreported>>

\* One more invocation of a callback (the count saturates at MaxCalls).
Called(n) == IF n < MaxCalls THEN n + 1 ELSE n

\* showControls = true (the default value of the prop), and the caller
\* supplies a fallbackText.
ShowControls == TRUE
fallbackText == TRUE

\* A task (an event handler, a timer callback, a render) starts only when the
\* microtask queue is empty: the .catch of a rejected play() runs first.
MicrotasksDone == ~playRejected

\* A slot of `audio` for which no element was created.
NoHandle ==
  [net |-> "none", paused |-> TRUE, tasks |-> <<>>, currentTime |-> 0,
   duration |-> 0]

\* audio.volume = isMuted ? 0 : 1
VolumeFor(muted) == IF muted THEN 0 ELSE 1

\* Variant of InitialVolume that leaves a new element at the default volume.
InitialVolume_Default(muted) == 1

\* The volume the load effect gives a new element: audio.volume = isMuted ? 0 : 1
InitialVolume(muted) == VolumeFor(muted)

\* new Audio(); preload = "auto"; src = audioUrl
NewAudio ==
  [net |-> "loading", paused |-> TRUE, tasks |-> <<>>, currentTime |-> 0,
   duration |-> 0]

----------------------------------------------------------------------------
\* Media element operations the component calls.

\* Variant of SetSrcEmpty in which the element keeps its queued events and
\* adds the error event to them.
SetSrcEmpty_KeepsTasks(a, h) ==
  [a EXCEPT ![h].net = "nosource", ![h].paused = TRUE,
            ![h].tasks = Append(@, "error"), ![h].currentTime = 0,
            ![h].duration = 0]

\* audio.src = "": the load algorithm drops the element's pending event
\* tasks, pauses it without a pause event, resets position and duration, and
\* the resource selection fails on the empty src: an error event is queued.
SetSrcEmpty(a, h) ==
  [a EXCEPT ![h].net = "nosource", ![h].paused = TRUE,
            ![h].tasks = <<"error">>, ![h].currentTime = 0,
            ![h].duration = 0]

\* audio.pause()
Pause(a, h) ==
  IF a[h].paused THEN a
  ELSE [a EXCEPT ![h].paused = TRUE, ![h].tasks = Append(@, "pause")]

\* audio.play() returns a rejected promise: the platform does not let
\* playback start (ok is false) or the element has no usable source.
PlayRejects(a, h, ok) ==
  a[h].paused /\ (~ok \/ a[h].net \in {"none", "nosource", "failed"})

\* audio.play(): with a rejected promise nothing changes on the element.
Play(a, h, ok) ==
  IF PlayRejects(a, h, ok) \/ ~a[h].paused THEN a
  ELSE [a EXCEPT ![h].paused = FALSE, ![h].tasks = Append(@, "play"),
                 ![h].currentTime =
                    IF @ = a[h].duration /\ a[h].net = "loaded" THEN 0 ELSE @]

\* The element is producing sound.
Audible(h) == audio[h].net = "loaded" /\ ~audio[h].paused

----------------------------------------------------------------------------
\* Rendering.

Decision ==
  IF loadError THEN "Fallback" ELSE IF isLoading THEN "Pending" ELSE "Real"

\* The render branch taken (lines 193-272).
Rendered ==
  IF loadError \/ audioUrl = NoUrl
  THEN (IF fallbackText THEN "tts" ELSE "unavailable")
  ELSE (IF ShowControls THEN "controls" ELSE "none")

\* A timer id for window.setInterval: one that is neither scheduled nor held.
FreshTimer(ts, ref) == CHOOSE t \in 1..(Cardinality(ts) + 2) : t \notin ts /\ t # ref

\* Variant of ProgressEffect that starts the timer without looking at
\* loadError.
ProgressEffect_IgnoresError(pl, le, ref) ==
  IF pl = isPlaying /\ le = loadError
  THEN <<timers, progressIntervalRef>>
  ELSE LET cleared == timers \ {progressIntervalRef}
       IN IF pl /\ ref # 0
          THEN LET t == FreshTimer(cleared, progressIntervalRef)
               IN <<cleared \cup {t}, t>>
          ELSE <<cleared, 0>>

\* Variant of ProgressEffect without clearInterval, in the cleanup and in the
\* else branch.
ProgressEffect_NeverClears(pl, le, ref) ==
  IF pl = isPlaying /\ le = loadError
  THEN <<timers, progressIntervalRef>>
  ELSE IF pl /\ ref # 0 /\ ~le
       THEN LET t == FreshTimer(timers, progressIntervalRef)
            IN <<timers \cup {t}, t>>
       ELSE <<timers, 0>>

\* The progress tracking effect after a commit with the new isPlaying (pl),
\* loadError (le) and audioRef.current (ref): <<timers, progressIntervalRef>>.
\* It runs only when a dependency changed; its previous cleanup runs first.
ProgressEffect(pl, le, ref) ==
  IF pl = isPlaying /\ le = loadError
  THEN <<timers, progressIntervalRef>>
  ELSE LET cleared == timers \ {progressIntervalRef}
       IN IF pl /\ ref # 0 /\ ~le
          THEN LET t == FreshTimer(cleared, progressIntervalRef)
               IN <<cleared \cup {t}, t>>
          ELSE <<cleared, 0>>

\* A commit of the state the handler set, followed by the effects that depend
\* on it.  After unmount React drops the updates.
Commit(le, ld, pl, pg, du, ref) ==
  IF life = "mounted"
  THEN /\ loadError' = le
       /\ isLoading' = ld
       /\ isPlaying' = pl
       /\ progress' = pg
       /\ duration' = du
       /\ timers' = ProgressEffect(pl, le, ref)[1]
       /\ progressIntervalRef' = ProgressEffect(pl, le, ref)[2]
  ELSE UNCHANGED <<loadError, isLoading, isPlaying, progress, duration,
                   timers, progressIntervalRef>>

----------------------------------------------------------------------------
\* The load effect.

\* Variant of CreatesHandle without the early return of the no-URL branch.
CreatesHandle_NoEarlyReturn(u) == TRUE

\* The early return of the no-URL branch: an element and a probe are created
\* only for a present URL.
CreatesHandle(u) == u # NoUrl

\* The dependency list of the load effect: it re-runs when the URL, autoPlay,
\* onEnded or onError changed.
LoadEffectReruns(u, ap, onEndedChanged, onErrorChanged) ==
  u # audioUrl \/ ap # autoPlay \/ onEndedChanged \/ onErrorChanged

\* The cleanup the previous run returned (only a run that created an element
\* returns one): audio.pause(); audio.src = "".
LoadCleanup(a) ==
  IF session >= 1 /\ a[session].net # "none"
  THEN SetSrcEmpty(Pause(a, session), session)
  ELSE a

\* The cleanup of the unmount effect, on the elements:
\* if (audioRef.current) { audioRef.current.pause(); audioRef.current.src = "" }
UnmountCleanup(a) ==
  IF audioRef # 0 THEN SetSrcEmpty(Pause(a, audioRef), audioRef) ELSE a

\* Variant of RunLoadEffect whose state reset also clears the duration.
RunLoadEffect_ResetsDuration(u, ap) ==
  LET s == session + 1
      a1 == LoadCleanup(audio)
      ref == IF CreatesHandle(u) THEN s ELSE audioRef
  IN /\ session' = s
     /\ audio' = IF CreatesHandle(u)
                 THEN [a1 EXCEPT ![s] = NewAudio]
                 ELSE a1
     /\ audioRef' = ref
     /\ volume' = IF CreatesHandle(u) THEN InitialVolume(isMuted) ELSE volume
     /\ probe' = [probe EXCEPT ![s] = IF CreatesHandle(u) THEN "pending" ELSE "none"]
     /\ loadError' = ~CreatesHandle(u)
     /\ isLoading' = CreatesHandle(u)
     /\ isPlaying' = FALSE
     /\ progress' = 0
     /\ timers' = ProgressEffect(FALSE, ~CreatesHandle(u), ref)[1]
     /\ progressIntervalRef' = ProgressEffect(FALSE, ~CreatesHandle(u), ref)[2]
     /\ duration' = 0
     /\ endsUnreported' = 0
     /\ UNCHANGED <<isMuted, onErrorCalls, playRejected>>

\* One run of the load effect with props u and ap, after the previous run's
\* cleanup: the state reset, then either the no-URL branch or a new element
\* and its HEAD request.  The count of unreported ends starts again with the
\* run: the cleanup dropped the queued events of the previous element.
RunLoadEffect(u, ap) ==
  LET s == session + 1
      a1 == LoadCleanup(audio)
      ref == IF CreatesHandle(u) THEN s ELSE audioRef
  IN /\ session' = s
     /\ audio' = IF CreatesHandle(u)
                 THEN [a1 EXCEPT ![s] = NewAudio]
                 ELSE a1
     /\ audioRef' = ref
     /\ volume' = IF CreatesHandle(u) THEN InitialVolume(isMuted) ELSE volume
     /\ probe' = [probe EXCEPT ![s] = IF CreatesHandle(u) THEN "pending" ELSE "none"]
     /\ loadError' = ~CreatesHandle(u)
     /\ isLoading' = CreatesHandle(u)
     /\ isPlaying' = FALSE
     /\ progress' = 0
     /\ timers' = ProgressEffect(FALSE, ~CreatesHandle(u), ref)[1]
     /\ progressIntervalRef' = ProgressEffect(FALSE, ~CreatesHandle(u), ref)[2]
     /\ endsUnreported' = 0
     /\ UNCHANGED <<duration, isMuted, onErrorCalls, playRejected>>

Init ==
  /\ life = "new"
  /\ audioUrl \in Urls \cup {NoUrl}
  /\ autoPlay \in BOOLEAN
  /\ loadError = FALSE
  /\ isLoading = TRUE
  /\ isPlaying = FALSE
  /\ progress = 0
  /\ duration = 0
  /\ isMuted = FALSE
  /\ audioRef = 0
  /\ volume = 1
  /\ progressIntervalRef = 0
  /\ timers = {}
  /\ session = 0
  /\ audio = [h \in Sessions |-> NoHandle]
  /\ probe = [s \in Sessions |-> "none"]
  /\ onErrorCalls = [s \in Sessions |-> 0]
  /\ endsUnreported = 0
  /\ playRejected = FALSE

\* First render and the effects of the mount.
Mount ==
  /\ MicrotasksDone
  /\ life = "new"
  /\ life' = "mounted"
  /\ RunLoadEffect(audioUrl, autoPlay)
  /\ UNCHANGED props

----------------------------------------------------------------------------
\* Prop changes by the parent.  Each re-render with a changed dependency runs
\* the load effect again (its cleanup first).

ChangeAudioUrl(u) ==
  /\ MicrotasksDone
  /\ life = "mounted"
  /\ session < MaxSessions
  /\ LoadEffectReruns(u, autoPlay, FALSE, FALSE)
  /\ audioUrl' = u
  /\ RunLoadEffect(u, autoPlay)
  /\ UNCHANGED <<life, autoPlay>>

ChangeAutoPlay ==
  /\ MicrotasksDone
  /\ life = "mounted"
  /\ session < MaxSessions
  /\ LoadEffectReruns(audioUrl, ~autoPlay, FALSE, FALSE)
  /\ autoPlay' = ~autoPlay
  /\ RunLoadEffect(audioUrl, ~autoPlay)
  /\ UNCHANGED <<life, audioUrl>>

\* The parent passes a new onEnded function.
ChangeOnEnded ==
  /\ MicrotasksDone
  /\ life = "mounted"
  /\ session < MaxSessions
  /\ LoadEffectReruns(audioUrl, autoPlay, TRUE, FALSE)
  /\ RunLoadEffect(audioUrl, autoPlay)
  /\ UNCHANGED <<life, props>>

\* The parent passes a new onError function.
ChangeOnError ==
  /\ MicrotasksDone
  /\ life = "mounted"
  /\ session < MaxSessions
  /\ LoadEffectReruns(audioUrl, autoPlay, FALSE, TRUE)
  /\ RunLoadEffect(audioUrl, autoPlay)
  /\ UNCHANGED <<life, props>>

----------------------------------------------------------------------------
\* The media engine: what the element does on its own after src was set.

\* The metadata of the resource arrived: loadedmetadata is queued.
MediaMetadataReady(h, d) ==
  /\ MicrotasksDone
  /\ audio[h].net = "loading"
  /\ Len(audio[h].tasks) < MaxTasks
  /\ audio' = [audio EXCEPT ![h].net = "loaded", ![h].duration = d,
                            ![h].tasks = Append(@, "loadedmetadata")]
  /\ UNCHANGED <<life, props, loadError, isLoading, isPlaying, progress,
                 duration, isMuted, audioRef, volume, progressIntervalRef, timers,
                 session, probe, callbacks, playRejected>>

\* The resource cannot be fetched or decoded: playback stops, error is queued.
MediaFails(h) ==
  /\ MicrotasksDone
  /\ audio[h].net \in {"loading", "loaded"}
  /\ Len(audio[h].tasks) < MaxTasks
  /\ audio' = [audio EXCEPT
                 ![h].net = IF @ = "loading" THEN "failed" ELSE "broken",
                 ![h].tasks = Append(@, "error")]
  /\ UNCHANGED <<life, props, loadError, isLoading, isPlaying, progress,
                 duration, isMuted, audioRef, volume, progressIntervalRef, timers,
                 session, probe, callbacks, playRejected>>

\* Playback advances by one second.
TimeAdvances(h) ==
  /\ MicrotasksDone
  /\ Audible(h)
  /\ audio[h].currentTime + 1 < audio[h].duration
  /\ audio' = [audio EXCEPT ![h].currentTime = @ + 1]
  /\ UNCHANGED <<life, props, loadError, isLoading, isPlaying, progress,
                 duration, isMuted, audioRef, volume, progressIntervalRef, timers,
                 session, probe, callbacks, playRejected>>

\* Playback reaches the end of the resource: the element pauses itself and
\* queues pause and ended.
PlaybackEnds(h) ==
  /\ MicrotasksDone
  /\ Audible(h)
  /\ Len(audio[h].tasks) + 2 <= MaxTasks
  /\ audio' = [audio EXCEPT ![h].currentTime = audio[h].duration,
                            ![h].paused = TRUE,
                            ![h].tasks = @ \o <<"pause", "ended">>]
  /\ endsUnreported' = endsUnreported + 1
  /\ UNCHANGED <<life, props, loadError, isLoading, isPlaying, progress,
                 duration, isMuted, audioRef, volume, progressIntervalRef, timers,
                 session, probe, onErrorCalls, playRejected>>

----------------------------------------------------------------------------
\* The handlers the load effect attached to element h.  They stay attached
\* after the cleanup of the run that created h.

NextTask(h, kind) == audio[h].tasks # <<>> /\ Head(audio[h].tasks) = kind
Popped(h) == [audio EXCEPT ![h].tasks = Tail(@)]

\* audio.onloadedmetadata.  The handler reads the autoPlay of the render that
\* ran the effect; the effect runs again on every change of autoPlay, and the
\* cleanup's src = "" drops a replaced element's pending loadedmetadata, so
\* that value is the current prop whenever the handler runs.
OnLoadedMetadata(h) ==
  /\ MicrotasksDone
  /\ NextTask(h, "loadedmetadata")
  /\ \E ok \in BOOLEAN :
       /\ audio' = IF autoPlay THEN Play(Popped(h), h, ok) ELSE Popped(h)
       /\ playRejected' = (autoPlay /\ PlayRejects(Popped(h), h, ok))
  /\ Commit(loadError, FALSE, isPlaying, progress, audio[h].duration, audioRef)
  /\ UNCHANGED <<life, props, isMuted, audioRef, volume, session, probe, callbacks>>

\* audio.onplay
OnPlay(h) ==
  /\ MicrotasksDone
  /\ NextTask(h, "play")
  /\ audio' = Popped(h)
  /\ Commit(loadError, isLoading, TRUE, progress, duration, audioRef)
  /\ UNCHANGED <<life, props, isMuted, audioRef, volume, session, probe, callbacks, playRejected>>

\* Variant of OnPause that also reports the pause to onEnded.
OnPause_CallsOnEnded(h) ==
  /\ MicrotasksDone
  /\ NextTask(h, "pause")
  /\ audio' = Popped(h)
  /\ Commit(loadError, isLoading, FALSE, progress, duration, audioRef)
  /\ endsUnreported' = endsUnreported - 1
  /\ UNCHANGED <<life, props, isMuted, audioRef, volume, session, probe,
                 onErrorCalls, playRejected>>

\* audio.onpause
OnPause(h) ==
  /\ MicrotasksDone
  /\ NextTask(h, "pause")
  /\ audio' = Popped(h)
  /\ Commit(loadError, isLoading, FALSE, progress, duration, audioRef)
  /\ UNCHANGED <<life, props, isMuted, audioRef, volume, session, probe, callbacks, playRejected>>

\* audio.onended: setIsPlaying(false); setProgress(0); onEnded?.() (the call
\* takes one end off the unreported ones).
OnEnded(h) ==
  /\ MicrotasksDone
  /\ NextTask(h, "ended")
  /\ audio' = Popped(h)
  /\ Commit(loadError, isLoading, FALSE, 0, duration, audioRef)
  /\ endsUnreported' = endsUnreported - 1
  /\ UNCHANGED <<life, props, isMuted, audioRef, volume, session, probe,
                 onErrorCalls, playRejected>>

\* audio.onerror
OnError(h) ==
  /\ MicrotasksDone
  /\ NextTask(h, "error")
  /\ audio' = Popped(h)
  /\ Commit(TRUE, FALSE, isPlaying, progress, duration, audioRef)
  /\ onErrorCalls' = [onErrorCalls EXCEPT ![h] = Called(@)]
  /\ UNCHANGED <<life, props, isMuted, audioRef, volume, session, probe,
                 endsUnreported, playRejected>>

----------------------------------------------------------------------------
\* The HEAD request of run s.

\* Variant of ProbeSucceeds whose .then clears the recorded error.
ProbeSucceeds_ClearsError(s) ==
  /\ MicrotasksDone
  /\ probe[s] = "pending"
  /\ probe' = [probe EXCEPT ![s] = "ok"]
  /\ Commit(FALSE, isLoading, isPlaying, progress, duration, audioRef)
  /\ UNCHANGED <<life, props, isMuted, audioRef, volume, session, audio,
                 callbacks, playRejected>>

\* .then with res.ok: nothing to do.
ProbeSucceeds(s) ==
  /\ MicrotasksDone
  /\ probe[s] = "pending"
  /\ probe' = [probe EXCEPT ![s] = "ok"]
  /\ UNCHANGED <<life, props, loadError, isLoading, isPlaying, progress,
                 duration, isMuted, audioRef, volume, progressIntervalRef, timers,
                 session, audio, callbacks, playRejected>>

\* Variant of ProbeFails whose .catch clears the source but records no error.
ProbeFails_NoLoadError(s) ==
  /\ MicrotasksDone
  /\ probe[s] = "pending"
  /\ probe' = [probe EXCEPT ![s] = "failed"]
  /\ audio' = IF audioRef # 0 THEN SetSrcEmpty(audio, audioRef) ELSE audio
  /\ UNCHANGED <<life, props, loadError, isLoading, isPlaying, progress,
                 duration, isMuted, audioRef, volume, progressIntervalRef,
                 timers, session, callbacks, playRejected>>

\* .catch (a network failure, or the throw for a status that is not ok):
\* the source of audioRef.current is cleared and the error is recorded.
ProbeFails(s) ==
  /\ MicrotasksDone
  /\ probe[s] = "pending"
  /\ probe' = [probe EXCEPT ![s] = "failed"]
  /\ audio' = IF audioRef # 0 THEN SetSrcEmpty(audio, audioRef) ELSE audio
  /\ Commit(TRUE, FALSE, isPlaying, progress, duration, audioRef)
  /\ UNCHANGED <<life, props, isMuted, audioRef, volume, session, callbacks, playRejected>>

----------------------------------------------------------------------------
\* The controls.  They exist only in the controls branch of the render; the
\* play button and the slider are disabled while isLoading.

togglePlay ==
  /\ MicrotasksDone
  /\ life = "mounted"
  /\ Rendered = "controls"
  /\ ~isLoading
  /\ audioRef # 0
  /\ Len(audio[audioRef].tasks) < MaxTasks
  /\ \E ok \in BOOLEAN :
       /\ audio' = IF isPlaying THEN Pause(audio, audioRef)
                   ELSE Play(audio, audioRef, ok)
       /\ playRejected' = (~isPlaying /\ PlayRejects(audio, audioRef, ok))
  /\ UNCHANGED <<life, props, loadError, isLoading, isPlaying, progress,
                 duration, isMuted, audioRef, volume, progressIntervalRef, timers,
                 session, probe, callbacks>>

\* Variant of SeekResult without setProgress(value[0]).
SeekResult_KeepsProgress(a, ref, pg, v) ==
  IF ref = 0 \/ a[ref].duration = 0 THEN <<a, pg>>
  ELSE <<[a EXCEPT ![ref].currentTime = (v * a[ref].duration) \div 100], pg>>

\* What handleSeek makes of the elements and the progress, for slider value
\* v: <<elements, progress>>.  if (!audio || !audio.duration) return;
\* audio.currentTime = (v / 100) * audio.duration; setProgress(v).
SeekResult(a, ref, pg, v) ==
  IF ref = 0 \/ a[ref].duration = 0 THEN <<a, pg>>
  ELSE <<[a EXCEPT ![ref].currentTime = (v * a[ref].duration) \div 100], v>>

handleSeek(v) ==
  /\ MicrotasksDone
  /\ life = "mounted"
  /\ Rendered = "controls"
  /\ ~isLoading
  /\ audio' = SeekResult(audio, audioRef, progress, v)[1]
  /\ progress' = SeekResult(audio, audioRef, progress, v)[2]
  /\ UNCHANGED <<life, props, loadError, isLoading, isPlaying, duration,
                 isMuted, audioRef, volume, progressIntervalRef, timers, session,
                 probe, callbacks, playRejected>>

\* The volume button, and the mute effect that follows its setIsMuted.
toggleMute ==
  /\ MicrotasksDone
  /\ life = "mounted"
  /\ Rendered = "controls"
  /\ isMuted' = ~isMuted
  /\ volume' = IF audioRef # 0 THEN VolumeFor(~isMuted) ELSE volume
  /\ UNCHANGED <<life, props, loadError, isLoading, isPlaying, progress,
                 duration, audioRef, progressIntervalRef, timers, session,
                 audio, probe, callbacks, playRejected>>

\* Variant of LogPlayFailure that treats the rejection as a load error.
LogPlayFailure_Escalates ==
  /\ playRejected
  /\ playRejected' = FALSE
  /\ Commit(TRUE, FALSE, isPlaying, progress, duration, audioRef)
  /\ onErrorCalls' = [onErrorCalls EXCEPT ![session] = Called(@)]
  /\ UNCHANGED <<life, props, isMuted, audioRef, volume, session, audio, probe,
                 endsUnreported>>

\* .catch of a rejected audio.play() (lines 87 and 169): console.error only.
LogPlayFailure ==
  /\ playRejected
  /\ playRejected' = FALSE
  /\ UNCHANGED <<life, props, loadError, isLoading, isPlaying, progress,
                 duration, isMuted, audioRef, volume, progressIntervalRef, timers,
                 session, audio, probe, callbacks>>

\* Variant of ProgressTick that publishes the position without dividing by
\* the duration.
ProgressTick_Unscaled ==
  /\ MicrotasksDone
  /\ timers # {}
  /\ life = "mounted"
  /\ audioRef # 0
  /\ audio[audioRef].duration # 0
  /\ progress' = audio[audioRef].currentTime * 100
  /\ UNCHANGED <<life, props, loadError, isLoading, isPlaying, duration,
                 isMuted, audioRef, volume, progressIntervalRef, timers, session,
                 audio, probe, callbacks, playRejected>>

\* The callback of a scheduled interval timer.
ProgressTick ==
  /\ MicrotasksDone
  /\ timers # {}
  /\ life = "mounted"
  /\ audioRef # 0
  /\ audio[audioRef].duration # 0
  /\ progress' = (audio[audioRef].currentTime * 100) \div audio[audioRef].duration
  /\ UNCHANGED <<life, props, loadError, isLoading, isPlaying, duration,
                 isMuted, audioRef, volume, progressIntervalRef, timers, session,
                 audio, probe, callbacks, playRejected>>

----------------------------------------------------------------------------
\* Unmount: the cleanups run in the order of the effects: the unmount effect
\* (clear the timer; pause audioRef.current and clear its src), the load
\* effect, the progress effect.  The useState cells go away with the
\* component (they read as their initial values from then on); the refs
\* and the elements live on in the closures of the callbacks still pending.
\* The elements have their queued events dropped, so no end is left for
\* onEnded to report.
Unmount ==
  /\ MicrotasksDone
  /\ life = "mounted"
  /\ life' = "unmounted"
  /\ timers' = timers \ {progressIntervalRef}
  /\ audio' = LoadCleanup(UnmountCleanup(audio))
  /\ loadError' = FALSE
  /\ isLoading' = TRUE
  /\ isPlaying' = FALSE
  /\ progress' = 0
  /\ duration' = 0
  /\ isMuted' = FALSE
  /\ endsUnreported' = 0
  /\ UNCHANGED <<props, audioRef, volume, progressIntervalRef, session, probe,
                 onErrorCalls, playRejected>>

----------------------------------------------------------------------------
Next ==
  \/ Mount
  \/ \E u \in Urls \cup {NoUrl} : ChangeAudioUrl(u)
  \/ ChangeAutoPlay
  \/ ChangeOnEnded
  \/ ChangeOnError
  \/ \E h \in Sessions, d \in Durations : MediaMetadataReady(h, d)
  \/ \E h \in Sessions : MediaFails(h)
  \/ \E h \in Sessions : TimeAdvances(h)
  \/ \E h \in Sessions : PlaybackEnds(h)
  \/ \E h \in Sessions : OnLoadedMetadata(h)
  \/ \E h \in Sessions : OnPlay(h)
  \/ \E h \in Sessions : OnPause(h)
  \/ \E h \in Sessions : OnEnded(h)
  \/ \E h \in Sessions : OnError(h)
  \/ \E s \in Sessions : ProbeSucceeds(s)
  \/ \E s \in Sessions : ProbeFails(s)
  \/ togglePlay
  \/ LogPlayFailure
  \/ \E v \in SeekValues : handleSeek(v)
  \/ toggleMute
  \/ ProgressTick
  \/ Unmount

Spec == Init /\ [][Next]_vars

\* Scheduling: a settled HEAD request runs its callback, a queued event task
\* is dispatched, a scheduled interval fires.  Nothing obliges the media
\* engine to report metadata or an error, the user to act, or the parent to
\* change props.
FairSpec ==
  /\ Spec
  /\ WF_vars(\E s \in Sessions : ProbeSucceeds(s) \/ ProbeFails(s))
  /\ WF_vars(\E h \in Sessions : OnLoadedMetadata(h) \/ OnPlay(h) \/ OnPause(h)
                                   \/ OnEnded(h) \/ OnError(h))
  /\ WF_vars(ProgressTick)
  /\ WF_vars(LogPlayFailure)

----------------------------------------------------------------------------
\* Properties.

Rank(d) == CASE d = "Pending" -> 0 [] d = "Real" -> 1 [] d = "Fallback" -> 2

\* A step inside one run of the load effect of the mounted component.
SameSession == life = "mounted" /\ life' = "mounted" /\ session' = session

\* C1 (as stated): within one session the decision leaves Pending at most
\* once and never changes afterwards: no step moves Real to Fallback,
\* Fallback to Real, or anything back to Pending.  Stated here for the steps
\* of the session's own element alone (no probe settles, no other element
\* acts): these already break it.
C1_DecisionAssignedOnce ==
  [][(/\ SameSession
      /\ probe' = probe
      /\ \A h \in Sessions \ {session} : audio'[h] = audio[h])
     => (Decision # "Pending" => Decision' = Decision)]_vars

\* C1 (amended): within one session the decision only moves forward in the
\* order Pending, Real, Fallback: it never returns to Pending and never leaves
\* Fallback, but Real can still become Fallback.
C1_DecisionMonotone ==
  [][SameSession => Rank(Decision) <= Rank(Decision')]_vars

\* A session that reached Real (its metadata was delivered) and then
\* recorded a media error: Pending, Real, Fallback.
C1_Witness ==
  /\ life = "mounted"
  /\ Decision = "Fallback"
  /\ audio[session].net = "broken"
  /\ duration = audio[session].duration
  /\ onErrorCalls[session] = 1

\* C2: when the session is Real and its own probe then fails, the decision
\* stays Real, the element keeps its source and no error is recorded.
C2_LateProbeFailureIgnored ==
  [][(SameSession /\ Decision = "Real" /\ probe[session] = "pending"
        /\ probe'[session] = "failed")
     => (Decision' = "Real" /\ audio'[session] = audio[session])]_vars

\* C3: the probe response of a session that was torn down changes neither
\* the decision, the loading flag nor the element of the session that
\* replaced it.
C3_StaleProbeIsNoOp ==
  [][\A s \in Sessions :
       (life = "mounted" /\ s < session /\ probe[s] = "pending"
          /\ probe'[s] # "pending")
       => (loadError' = loadError /\ isLoading' = isLoading
           /\ audio'[session] = audio[session])]_vars

\* C4: once the probe of the current session has failed, the decision is
\* Fallback, whatever the element reports afterwards.
C4_ProbeFailureCommitsFallback ==
  (life = "mounted" /\ probe[session] = "failed") => Decision = "Fallback"

\* The probe of the first session failed before any metadata was delivered
\* (duration was never set), and the session is in Fallback.
C4_Witness ==
  /\ life = "mounted"
  /\ session = 1
  /\ probe[1] = "failed"
  /\ duration = 0
  /\ Decision = "Fallback"

\* C5: no element is playing while the text-to-speech player is rendered.
C5_OneBackendAudible ==
  ~(life = "mounted" /\ Rendered = "tts" /\ \E h \in Sessions : Audible(h))

\* C6: with no URL the decision is Fallback, the session has no element and
\* no probe, and its handlers never called onError.
C6_AbsentReference ==
  (life = "mounted" /\ audioUrl = NoUrl)
  => /\ Decision = "Fallback"
     /\ audio[session].net = "none"
     /\ probe[session] = "none"
     /\ onErrorCalls[session] = 0

\* A session without URL that replaced one with an element, after the
\* replaced element's error event was dispatched.
C6_Witness ==
  /\ life = "mounted"
  /\ audioUrl = NoUrl
  /\ audioRef # 0
  /\ audio[audioRef].tasks = <<>>
  /\ onErrorCalls[audioRef] >= 1

\* C7: when the probe of the session has failed and no event of its element
\* is pending, the session is in Fallback, onError was called exactly once
\* and the text-to-speech player is rendered with the text.
C7_ProbeFailureReportedOnce ==
  (life = "mounted" /\ probe[session] = "failed" /\ audio[session].tasks = <<>>)
  => /\ Decision = "Fallback"
     /\ onErrorCalls[session] = 1
     /\ Rendered = "tts"

\* C8: every call of onError is the first of its session, and the session's
\* asset has failed (its element reported a media error or its probe failed).
C8_OnErrorAtMostOnce ==
  [][\A s \in Sessions :
       onErrorCalls'[s] # onErrorCalls[s]
       => /\ onErrorCalls[s] = 0
          /\ \/ audio[s].net \in {"failed", "broken"}
             \/ probe[s] = "failed"]_vars

\* C9: in Fallback, a step that keeps the URL creates no element, issues no
\* probe and leaves the decision Fallback.
C9_NoRetryAfterFallback ==
  [][(life = "mounted" /\ life' = "mounted" /\ Decision = "Fallback"
        /\ audioUrl' = audioUrl)
     => /\ Decision' = "Fallback"
        /\ \A h \in Sessions :
             /\ audio[h].net = "none" => audio'[h].net = "none"
             /\ probe[h] = "none" => probe'[h] = "none"]_vars

\* C10: every session eventually leaves Pending.
C10_EventuallyLeavesPending ==
  \A s \in Sessions :
    (life = "mounted" /\ session = s /\ Decision = "Pending")
    ~> ~(life = "mounted" /\ session = s /\ Decision = "Pending")


----------------------------------------------------------------------------
\* onEnded.

\* The ended events queued on element h.
PendingEnded(h) ==
  Cardinality({i \in DOMAIN audio[h].tasks : audio[h].tasks[i] = "ended"})

RECURSIVE SumPendingEnded(_)
SumPendingEnded(hs) ==
  IF hs = {} THEN 0
  ELSE LET h == CHOOSE x \in hs : TRUE
       IN PendingEnded(h) + SumPendingEnded(hs \ {h})

----------------------------------------------------------------------------
\* The progress sampling timer.

\* C12: the sampling timer is scheduled exactly when the decision is Real and
\* the published playing flag (set by the play and pause events of the
\* elements) is set; that flag agrees with the element of the current run as
\* soon as the element's queued events are dispatched; the timer samples the
\* element of the current run, and no timer outlives the component.
C12_TimerIffRealAndPlaying ==
  /\ life = "mounted" => ((timers # {}) <=> (Decision = "Real" /\ isPlaying))
  /\ (life = "mounted" /\ Decision = "Real" /\ audio[audioRef].tasks = <<>>)
       => (isPlaying <=> Audible(audioRef))
  /\ (life = "mounted" /\ timers # {}) => (audioRef # 0 /\ audioRef = session)
  /\ life # "mounted" => timers = {}

\* The timer runs while the element of the current run is playing.
C12_Witness ==
  /\ life = "mounted"
  /\ timers # {}
  /\ Decision = "Real"
  /\ isPlaying
  /\ audioRef = session
  /\ Audible(audioRef)

\* C13: at most one sampling timer is scheduled at any time, and it is the
\* one progressIntervalRef holds.
C13_AtMostOneTimer ==
  /\ Cardinality(timers) <= 1
  /\ timers # {} => timers = {progressIntervalRef}

\* A timer is scheduled in a later run of the load effect, after the timer of
\* an earlier play was cleared, and has sampled a position.
C13_Witness ==
  /\ life = "mounted"
  /\ session >= 2
  /\ Cardinality(timers) = 1
  /\ progress > 0
  /\ isPlaying


----------------------------------------------------------------------------
\* Published progress (a percentage; the fraction is progress / 100).

----------------------------------------------------------------------------
\* Teardown.

----------------------------------------------------------------------------
\* Seek.

\* C16: for every slider value v, a seek on an element with a known, non-zero
\* duration d sets its position to (v / 100) * d and the published progress
\* to v, together, and touches nothing else of the elements; with no element
\* or no known duration it changes neither.
C16_SeekSetsPositionAndProgress ==
  \A v \in SeekValues :
    LET r == SeekResult(audio, audioRef, progress, v)
    IN IF audioRef = 0 \/ audio[audioRef].duration = 0
       THEN r = <<audio, progress>>
       ELSE /\ r[1][audioRef].currentTime * 100 = v * audio[audioRef].duration
            /\ r[1] = [audio EXCEPT
                         ![audioRef].currentTime = r[1][audioRef].currentTime]
            /\ r[2] = v

\* A seek to the end of a paused element: position at the duration and
\* progress 100 with no end of playback involved.
C16_Witness ==
  /\ life = "mounted"
  /\ Decision = "Real"
  /\ audioRef # 0
  /\ audio[audioRef].duration # 0
  /\ audio[audioRef].currentTime = audio[audioRef].duration
  /\ audio[audioRef].tasks = <<>>
  /\ audio[audioRef].paused
  /\ endsUnreported = 0
  /\ progress = 100


----------------------------------------------------------------------------
\* Release of the element in Fallback.

\* The element was never created, or it is stopped with its source detached.
Released(h) == audio[h].net \in {"none", "nosource"} /\ audio[h].paused

\* C17: whenever the decision is Fallback the element of the session was
\* never created or has been released.  Stated for the first run of the load
\* effect, where no element of an earlier run exists.
C17_FallbackReleasesHandle ==
  (life = "mounted" /\ session = 1 /\ Decision = "Fallback") => Released(session)


----------------------------------------------------------------------------
\* A rejected play().

\* C18: a playback-start failure is only logged.  The step in which play()
\* is rejected changes the error flag and the count of onError calls not at
\* all and the loading flag only as the loadedmetadata handler making the
\* call does; the .catch that follows changes nothing but the pending
\* rejection; so the decision is what it would be had playback started.
C18_PlayFailureOnlyLogged ==
  [][/\ (~playRejected /\ playRejected')
         => /\ loadError' = loadError
            /\ onErrorCalls' = onErrorCalls
            /\ isPlaying' = isPlaying
            /\ (isLoading' = isLoading
                  \/ (\E h \in Sessions : NextTask(h, "loadedmetadata")
                                            /\ audio' = Popped(h)))
            /\ \A h \in Sessions : audio'[h].paused = audio[h].paused
     /\ (playRejected /\ ~playRejected')
         => UNCHANGED <<life, props, loadError, isLoading, isPlaying, progress,
                        duration, isMuted, audioRef, volume,
                        progressIntervalRef, timers, session, audio, probe,
                        callbacks>>]_vars

\* play() from the play button was rejected while the decision is Real.
C18_Witness ==
  /\ life = "mounted"
  /\ playRejected
  /\ Decision = "Real"
  /\ audioRef = session
  /\ audio[audioRef].net = "loaded"
  /\ audio[audioRef].paused


----------------------------------------------------------------------------
\* Mute.

\* C19: while the component is mounted the volume of the element held by
\* audioRef is 0 when muted and 1 when not, whatever mute toggles and runs of
\* the load effect came before.
C19_VolumeFollowsMute ==
  (life = "mounted" /\ audioRef # 0) => volume = VolumeFor(isMuted)

\* Muted in an earlier run, and the element of a later run is silent.
C19_Witness ==
  /\ life = "mounted"
  /\ session >= 2
  /\ audioRef = session
  /\ audio[audioRef].net = "loaded"
  /\ isMuted
  /\ volume = 0


----------------------------------------------------------------------------
\* The state reset of a run of the load effect.

\* C20: a run of the load effect resets the playing flag and the progress,
\* leaves the error flag and the loading flag as the branch taken sets them
\* after the reset (no error and loading for a present URL; error and not
\* loading for an absent one), and leaves the duration and the mute state as
\* they were; within a run the published duration changes only when the
\* loadedmetadata event of an element is handled.
C20_ResetKeepsDurationAndMute ==
  [][/\ (life' = "mounted" /\ session' # session)
         => /\ duration' = duration
            /\ isMuted' = isMuted
            /\ ~isPlaying'
            /\ progress' = 0
            /\ loadError' = (audioUrl' = NoUrl)
            /\ isLoading' = (audioUrl' # NoUrl)
     /\ (SameSession /\ duration' # duration)
         => \E h \in Sessions : /\ NextTask(h, "loadedmetadata")
                                 /\ duration' = audio[h].duration]_vars

\* A later run without metadata of its own still publishes the duration of
\* an earlier run.
C20_Witness ==
  /\ life = "mounted"
  /\ session >= 2
  /\ Decision # "Real"
  /\ audio[session].duration = 0
  /\ duration # 0


====
